---- MODULE Spec2Model ----
(***************************************************************************)
(* Lip_Reading_SNN: the delay-integrated spiking layer (Dcls3_1_SJ), the   *)
(* residual block and backbone that broadcast its epoch hooks, and the     *)
(* training script that groups the parameters and anneals the spread.      *)
(*                                                                         *)
(* Sources: src/SNN_models.py, src/lip_reading.py.                         *)
(***************************************************************************)
EXTENDS Integers, Sequences, FiniteSets, TLC

VARIABLES
    \* ---- one delay layer driven through decrease_sig (SigSpec)
    lyr,            \* the Dcls3_1_SJ instance: its attributes and parameters
    sig_epochs,     \* the `epochs` argument of the calls
    sig_epoch,      \* the `epoch` argument of the next call
    sig_raised,     \* "none", or the exception the last call raised
    sig_calls,      \* number of calls made so far
    \* ---- the optimizer groups of lip_reading.py (GroupSpec)
    named_parameters,   \* model.named_parameters(): <<[name, requires_grad]>>
    grp_i,              \* position of the `for name, param` loop
    position_params,    \* indices (identities) of the parameters appended
    other_params,
    \* ---- Dcls3_1_SJ.forward on two inputs (FwdSpec)
    fwd_x,          \* input tensor, axes [T, N, C, H, W]
    fwd_x2,         \* a second input: fwd_x with one entry perturbed
    fwd_kern,       \* the synthesized kernel along time, K taps
    fwd_out,        \* forward(fwd_x), once called
    fwd_out2,       \* forward(fwd_x2), once called
    fwd_pc,         \* "input" before the call, "done" after it
    \* ---- the head of LowRateBranch.forward on two inputs (HeadSpec)
    head_x,         \* pooled features after bn2, axes [T, b, 1, 1, 1]
    head_x2,        \* a second input: head_x with one entry perturbed
    head_out,       \* the logits for head_x, axes [T, b, n_class, 1, 1]
    head_out2,
    head_pc,
    \* ---- one BasicBlock and its hooks (BlockSpec)
    blk,            \* the block: its flags and its convolutions
    blk_raised,     \* "none", or the exception the last hook call raised
    blk_calls,      \* number of hook calls made so far
    \* ---- ResNet18.__init__ and the backbone's hooks (BuildSpec)
    bb,             \* the backbone: inplanes, se, self.layers, its blocks
    bld_layers,     \* the `layers` argument, [n1, n2, n3, n4]
    bb_visits,      \* <<block, conv>> of every layer the last hook call reached
    bb_raised,      \* "none", or the exception the last hook call raised
    bb_calls,       \* number of hook calls made so far
    \* ---- one delay layer under the optimizer and the two hooks (LayerSpec)
    lay,            \* the layer, with its weight
    lay_groups,     \* param_groups: the names in each optimizer group
    lay_last,       \* the last operation applied: "init", "step", "clamp", "decrease_sig"
    lay_raised,     \* "none", or the exception the last operation raised
    lay_ops,        \* number of operations applied so far
    \* ---- the training script (TrainSpec)
    args,           \* [model_name, max_epoch]
    model,          \* the model built for args.model_name
    trn_epoch,      \* the loop variable `epoch`
    trn_pc,         \* the step the loop is at, "done", "aborted" (an exception in
                    \* the loop) or "startup_failed" (one before the loop)
    trn_raised,     \* "none", or the exception that ended the script
    trn_log,        \* the steps taken so far, <<epoch, step>> each
    trn_locals,     \* train_loss, train_accuracy, test_loss, test_accuracy
    trn_lists,      \* train_losses, test_losses, train_accuracies, test_accuracies
    trn_models,     \* history: the model as each evaluation pass found it
    best_epoch,     \* the best_epoch dictionary
    checkpoint,     \* the checkpoint dictionary last built; its model aliases the live one
    files           \* what is stored under the three paths

sigVars == <<lyr, sig_epochs, sig_epoch, sig_raised, sig_calls>>

grpVars == <<named_parameters, grp_i, position_params, other_params>>

fwdVars == <<fwd_x, fwd_x2, fwd_kern, fwd_out, fwd_out2, fwd_pc>>

headVars == <<head_x, head_x2, head_out, head_out2, head_pc>>

blkVars == <<blk, blk_raised, blk_calls>>

bldVars == <<bb, bld_layers, bb_visits, bb_raised, bb_calls>>

layVars == <<lay, lay_groups, lay_last, lay_raised, lay_ops>>

trnVars == <<args, model, trn_epoch, trn_pc, trn_raised, trn_log, trn_locals,
             trn_lists, trn_models, best_epoch, checkpoint, files>>

vars == <<sigVars, grpVars, fwdVars, headVars, blkVars, bldVars, layVars, trnVars>>

(***************************************************************************)
(* Bounds of the model.                                                    *)
(***************************************************************************)
\* number of entries of a parameter tensor (P, SIG) that are tracked
NEntries == 2
\* the small values of total_epochs tried besides the script's default
SmallEpochs == 8
\* number of parameters of the model handed to the grouping loop
MaxParams == 2
\* time steps and batch size of the inputs of forward
MaxT == 3
MaxN == 2
\* out_channels of the layer whose forward is called
OutChannels == 2
\* n_class of the classification head
NumClasses == 2
\* number of hook calls made on a block or a backbone
MaxHookCalls == 3
\* largest entry of the `layers` argument of the backbone
MaxBlocks == 2
\* number of operations applied to the layer of LayerSpec
MaxLayerOps == 4
\* largest initial position of the layer of LayerSpec, in time steps
MaxInitialP == 2
\* largest --max_epoch the training script is started with
MaxEpochArg == 4

(***************************************************************************)
(* float32 arithmetic.  A positive float32 is [m, e] with value m * 2^e    *)
(* and 2^23 <= m < 2^24.  SIG is a float32 tensor; `SIG *= alpha` rounds   *)
(* the exact product to the nearest float32, ties to even.                 *)
(***************************************************************************)
Pow2_12 == 2^12

Pow2_22 == 2^22

Pow2_23 == 2^23

Pow2_24 == 2^24

F32(m, e) == [m |-> m, e |-> e]

\* round-to-nearest-even of q + rem/half2, rem < half2, half2 = 2 * half
RNE(q, rem, half) ==
    IF rem > half THEN q + 1
    ELSE IF rem = half THEN q + (q % 2)
    ELSE q

\* renormalise a mantissa that rounding carried up to 2^24
F32Norm(m, e) == IF m = Pow2_24 THEN F32(Pow2_23, e + 1) ELSE F32(m, e)

\* the exact 48-bit product of two 24-bit mantissas as hi * 2^24 + lo,
\* computed in 12-bit limbs so that no intermediate exceeds 31 bits
MulHiLo(a, b) ==
    LET h1 == a \div Pow2_12
        l1 == a % Pow2_12
        h2 == b \div Pow2_12
        l2 == b % Pow2_12
        mid == h1 * l2 + l1 * h2
        losum == (mid % Pow2_12) * Pow2_12 + l1 * l2
    IN  [hi |-> h1 * h2 + (mid \div Pow2_12) + (losum \div Pow2_24),
         lo |-> losum % Pow2_24]

\* float32 multiplication x * y
F32Mul(x, y) ==
    LET p == MulHiLo(x.m, y.m)
    IN  IF p.hi >= Pow2_23
        THEN F32Norm(RNE(p.hi, p.lo, Pow2_23), x.e + y.e + 24)
        ELSE F32Norm(RNE(2 * p.hi + (p.lo \div Pow2_23), p.lo % Pow2_23, Pow2_22),
                     x.e + y.e + 23)

\* x <= y on positive float32 values
F32Leq(x, y) == x.e < y.e \/ (x.e = y.e /\ x.m <= y.m)

\* k / 2 as a float32, for a small positive integer k (sig_init, line 46)
RECURSIVE F32Scale(_, _)
F32Scale(m, e) == IF m >= Pow2_23 THEN F32(m, e) ELSE F32Scale(2 * m, e - 1)

F32Half(k) == F32Scale(k, -1)

(***************************************************************************)
(* Dcls3_1_SJ                                                              *)
(***************************************************************************)
\* the relaxation modes of the kernel (spec 4.1)
Versions == {"gauss", "v1"}

\* dilated_kernel_size[0] of new_conv3x3 / new_conv1x1
DilatedKernelSize == 3

\* final_sig = 0.23 is a double that is no float32: 0.23 * 2^26 = 15435038.72.
\* A float32 x is > 0.23 iff it is above the largest float32 below 0.23.
final_sig == F32(15435038, -26)

GreaterThanFinalSig(x) == ~F32Leq(x, final_sig)

\* (final_sig / sig_init) ** (1 / final_epoch), sig_init = 1.5, computed in
\* double and converted to float32 by `SIG *= alpha`; entry i is final_epoch = i
AlphaTable ==
    << <<10290026, -26>>, <<13139178, -25>>, <<8979774, -24>>, <<10498543, -24>>,
       <<11530475, -24>>, <<12274185, -24>>, <<12834598, -24>>, <<13271636, -24>>,
       <<13621818, -24>>, <<13908604, -24>>, <<14147733, -24>>, <<14350145, -24>>,
       <<14523676, -24>>, <<14674087, -24>>, <<14805702, -24>>, <<14921833, -24>>,
       <<15025058, -24>>, <<15117413, -24>>, <<15200528, -24>>, <<15275721, -24>>,
       <<15344074, -24>>, <<15406478, -24>>, <<15463678, -24>>, <<15516297, -24>>,
       <<15564865, -24>>, <<15609832, -24>>, <<15651584, -24>>, <<15690453, -24>>,
       <<15726729, -24>>, <<15760662, -24>>, <<15792472, -24>>, <<15822352, -24>> >>

alpha(final_epoch) == F32(AlphaTable[final_epoch][1], AlphaTable[final_epoch][2])

\* --max_epoch default
max_epoch_default == 100

EpochsChoices == (1..SmallEpochs) \cup {max_epoch_default}

\* initial positions of a layer (in units of the time step)
ZeroP == [i \in 1..NEntries |-> 0]

\* Dcls3_1d.__init__: P always, SIG only in the Gaussian variant; both are
\* created as learnable parameters.  A missing SIG is the empty sequence.
Dcls3_1d_init(version, dks, P0) ==
    [kind |-> "Dcls3_1_SJ",
     version |-> version,
     dilated_kernel_size |-> dks,
     learn_delay |-> TRUE,
     P |-> P0,
     P_requires_grad |-> TRUE,
     SIG |-> IF version = "gauss" THEN [i \in 1..NEntries |-> F32(Pow2_23, -23)]
             ELSE <<>>,
     SIG_requires_grad |-> version = "gauss",
     sig_init |-> F32(Pow2_23, -23),
     has_sig_init |-> FALSE]

\* the constructor without its line 45, which disables the spread's gradient
FreezeSIG_keeps_grad(l) ==
    [l EXCEPT !.sig_init = F32Half(l.dilated_kernel_size),
              !.has_sig_init = TRUE,
              !.SIG = [i \in 1..NEntries |-> F32Half(l.dilated_kernel_size)]]

\* Dcls3_1_SJ.__init__, lines 40-47
FreezeSIG(l) ==
    [l EXCEPT !.SIG_requires_grad = FALSE,
              !.sig_init = F32Half(l.dilated_kernel_size),
              !.has_sig_init = TRUE,
              !.SIG = [i \in 1..NEntries |-> F32Half(l.dilated_kernel_size)]]

Dcls3_1_SJ_init(version, learn_delay, dks, P0) ==
    LET l0 == [Dcls3_1d_init(version, dks, P0) EXCEPT !.learn_delay = learn_delay]
        l1 == IF ~learn_delay THEN [l0 EXCEPT !.P_requires_grad = FALSE] ELSE l0
    IN  IF version = "gauss" THEN FreezeSIG(l1) ELSE l1

\* Dcls3_1_SJ.decrease_sig: the outcome of one call, [layer, raised]
final_epoch(epochs) == (1 * epochs) \div 4

ReadsSIG(l) == Len(l.SIG) > 0

\* a scaling that writes only the entry decrease_sig reads
ScaleSIG_first_entry(l, a) == [l EXCEPT !.SIG[1] = F32Mul(l.SIG[1], a)]

\* self.SIG *= alpha, line 56
ScaleSIG(l, a) == [l EXCEPT !.SIG = [i \in 1..Len(l.SIG) |-> F32Mul(l.SIG[i], a)]]

\* decrease_sig without the `sig > final_sig` test of line 54
decrease_sig_no_floor(l, epoch, epochs) ==
    IF ~ReadsSIG(l)
    THEN [layer |-> l, raised |-> "TypeError"]
    ELSE IF l.version = "gauss" /\ epoch < epochs
    THEN IF final_epoch(epochs) = 0
         THEN [layer |-> l, raised |-> "ZeroDivisionError"]
         ELSE [layer |-> ScaleSIG(l, alpha(final_epoch(epochs))), raised |-> "none"]
    ELSE [layer |-> l, raised |-> "none"]

decrease_sig(l, epoch, epochs) ==
    IF ~ReadsSIG(l)
    THEN [layer |-> l, raised |-> "TypeError"]          \* line 52 on SIG = None
    ELSE IF l.version = "gauss" /\ epoch < epochs /\ GreaterThanFinalSig(l.SIG[1])
    THEN IF final_epoch(epochs) = 0
         THEN [layer |-> l, raised |-> "ZeroDivisionError"]   \* 1 / final_epoch
         ELSE [layer |-> ScaleSIG(l, alpha(final_epoch(epochs))), raised |-> "none"]
    ELSE [layer |-> l, raised |-> "none"]

(***************************************************************************)
(* lip_reading.py, lines 149-156: the two optimizer groups.  A qualified   *)
(* name is its sequence of characters, so that endswith is a real suffix   *)
(* test.                                                                   *)
(***************************************************************************)
EndsWith(name, suffix) ==
    /\ Len(name) >= Len(suffix)
    /\ SubSeq(name, Len(name) - Len(suffix) + 1, Len(name)) = suffix

DotP == <<".", "P">>

DotSIG == <<".", "S", "I", "G">>

\* `name.endswith(".P") or name.endswith(".SIG") and param.requires_grad`:
\* Python's `and` binds tighter than `or`
InPositionGroup(name, requires_grad) ==
    EndsWith(name, DotP) \/ (EndsWith(name, DotSIG) /\ requires_grad)

\* qualified names a model can hold: c.P, c.SIG, c.w (a weight), cP (a name
\* that ends in P without the dot), P (no owner), c.P.w (a marker inside)
ParamNames ==
    { <<"c", ".", "P">>, <<"c", ".", "S", "I", "G">>, <<"c", ".", "w">>,
      <<"c", "P">>, <<"P">>, <<"c", ".", "P", ".", "w">> }

ParamSet == [name : ParamNames, requires_grad : BOOLEAN]

GrpInit ==
    /\ named_parameters \in [1..MaxParams -> ParamSet]
    /\ \A i, j \in 1..MaxParams :
          i # j => named_parameters[i].name # named_parameters[j].name
    /\ grp_i = 1
    /\ position_params = <<>>
    /\ other_params = <<>>

GrpIdle ==
    /\ named_parameters = <<>>
    /\ grp_i = 1
    /\ position_params = <<>>
    /\ other_params = <<>>

\* one iteration of the loop
GrpStep ==
    /\ grp_i <= Len(named_parameters)
    /\ LET p == named_parameters[grp_i]
       IN  IF InPositionGroup(p.name, p.requires_grad)
           THEN /\ position_params' = Append(position_params, grp_i)
                /\ UNCHANGED other_params
           ELSE /\ other_params' = Append(other_params, grp_i)
                /\ UNCHANGED position_params
    /\ grp_i' = grp_i + 1
    /\ UNCHANGED named_parameters

GrpDone == grp_i > Len(named_parameters)

Range(s) == { s[i] : i \in 1..Len(s) }

(***************************************************************************)
(* Tensors: [shape, data], five axes, indices from 1.  Python's axis a is  *)
(* axis a + 1 here.                                                        *)
(***************************************************************************)
Indices(shape) ==
    { <<a, b, c, d, e>> : a \in 1..shape[1], b \in 1..shape[2], c \in 1..shape[3],
                          d \in 1..shape[4], e \in 1..shape[5] }

Tensor(shape, f(_)) == [shape |-> shape, data |-> [idx \in Indices(shape) |-> f(idx)]]

\* x.permute(perm): output axis i is input axis perm[i]
Permute(x, perm) ==
    LET shape == [i \in 1..5 |-> x.shape[perm[i]]]
        inv == [j \in 1..5 |-> CHOOSE i \in 1..5 : perm[i] = j]
        at(idx) == x.data[[j \in 1..5 |-> idx[inv[j]]]]
    IN  Tensor(shape, at)

\* F.pad(x, (left, right), mode="constant", value=0): the last axis
Pad(x, left, right) ==
    LET L == x.shape[5]
        shape == [x.shape EXCEPT ![5] = L + left + right]
        at(idx) == IF idx[5] <= left \/ idx[5] > left + L THEN 0
                   ELSE x.data[[idx EXCEPT ![5] = idx[5] - left]]
    IN  Tensor(shape, at)

\* the convolution's stride and padding along time (lines 31-32)
TimeStride == 1

TimePadding == 0

ConvOut(len, k, stride, padding) == (len + 2 * padding - k) \div stride + 1

RECURSIVE SumTaps(_, _, _, _)
SumTaps(x, idx, kern, k) ==
    IF k = 0 THEN 0
    ELSE SumTaps(x, idx, kern, k - 1)
         + kern[k] * x.data[[idx EXCEPT ![2] = 1, ![5] = idx[5] + k - 1]]

\* Dcls3_1d.forward on [N, C, H, W, L]: a convolution (cross-correlation) of
\* extent K = Len(kern) along the last axis with the synthesized kernel, no
\* padding and stride 1 there; one input channel, output channel c weighs c.
Dcls3_1d_forward(x, kern, out_channels) ==
    LET shape == [x.shape EXCEPT
                     ![2] = out_channels,
                     ![5] = ConvOut(x.shape[5], Len(kern), TimeStride, TimePadding)]
        at(idx) == idx[2] * SumTaps(x, idx, kern, Len(kern))
    IN  Tensor(shape, at)

\* permute(1, 2, 3, 4, 0) and permute(4, 0, 1, 2, 3) of lines 59 and 62
PermIn == <<2, 3, 4, 5, 1>>

\* an output permutation that exchanges the batch and the channel axes
PermOutSwapped == <<5, 2, 1, 3, 4>>

PermOut == <<5, 1, 2, 3, 4>>

\* the pad put after the last step instead of before the first
PadAcausal(x, k) == Pad(x, 0, k - 1)

\* F.pad(x, (dilated_kernel_size[0] - 1, 0)) of line 60
PadCausal(x, k) == Pad(x, k - 1, 0)

\* Dcls3_1_SJ.forward, lines 58-63
forward(x, kern, out_channels) ==
    LET x1 == Permute(x, PermIn)
        x2 == PadCausal(x1, Len(kern))
        x3 == Dcls3_1d_forward(x2, kern, out_channels)
    IN  Permute(x3, PermOut)

\* kernels the relaxation can synthesize over K = 3 taps: all weight on one
\* tap (spread at the floor), or weight on every tap (diffuse)
Kernels == { <<1, 0, 0>>, <<0, 1, 0>>, <<0, 0, 1>>, <<1, 2, 4>> }

InputShapes == { <<t, n, 1, 1, 1>> : t \in 1..MaxT, n \in 1..MaxN }

\* spike trains of one sample over T steps: silent, firing at every step,
\* firing at every other step
Trains(T) == { [t \in 1..T |-> 0], [t \in 1..T |-> 1], [t \in 1..T |-> t % 2] }

InputOf(shape, trains) ==
    LET at(idx) == trains[idx[2]][idx[1]]
    IN  Tensor(shape, at)

EmptyTensor == [shape |-> <<0, 0, 0, 0, 0>>, data |-> <<>>]

Perturb(x, idx) == [x EXCEPT !.data[idx] = 1 - x.data[idx]]

FwdInit ==
    /\ \E shape \in InputShapes :
          /\ \E trains \in [1..shape[2] -> Trains(shape[1])] :
                fwd_x = InputOf(shape, trains)
          /\ \E idx \in Indices(shape) : fwd_x2 = Perturb(fwd_x, idx)
    /\ fwd_kern \in Kernels
    /\ fwd_out = EmptyTensor
    /\ fwd_out2 = EmptyTensor
    /\ fwd_pc = "input"

FwdIdle ==
    /\ fwd_x = EmptyTensor
    /\ fwd_x2 = EmptyTensor
    /\ fwd_kern = <<>>
    /\ fwd_out = EmptyTensor
    /\ fwd_out2 = EmptyTensor
    /\ fwd_pc = "idle"

FwdCall ==
    /\ fwd_pc = "input"
    /\ fwd_out' = forward(fwd_x, fwd_kern, OutChannels)
    /\ fwd_out2' = forward(fwd_x2, fwd_kern, OutChannels)
    /\ fwd_pc' = "done"
    /\ UNCHANGED <<fwd_x, fwd_x2, fwd_kern>>

(***************************************************************************)
(* LowRateBranch.forward, lines 591-600: the head after bn2.  Tensors keep *)
(* five axes; the head uses [T, b, features] and leaves the last two at 1. *)
(* Values are in units of 1 / HeadUnit so that the halvings are exact.     *)
(***************************************************************************)
HeadUnit == 2 ^ (MaxT + MaxN + 2)

\* x.transpose(0, 1)
Transpose01(x) == Permute(x, <<2, 1, 3, 4, 5>>)

\* the spiking neuron built by spiking_neuron(step_mode="m"): a parametric
\* LIF, tau = 2, threshold 1, hard reset to 0.  In multi-step mode it walks
\* axis 0 of its input and carries the membrane potential from one index
\* of that axis to the next.  NeuronV is the potential after step i, before
\* the reset; a spike is fired when it reaches the threshold.
RECURSIVE NeuronV(_, _, _)
NeuronV(x, i, rest) ==
    LET prev == IF i = 1 THEN 0 ELSE NeuronV(x, i - 1, rest)
        v == IF prev >= HeadUnit THEN 0 ELSE prev
    IN  v + (x.data[<<i>> \o rest] - v) \div 2

MultiStepNeuron(x) ==
    LET at(idx) == IF NeuronV(x, idx[1], Tail(idx)) >= HeadUnit THEN 1 ELSE 0
    IN  Tensor(x.shape, at)

\* layer.SynapseFilter(tau=2.0, learnable=True) in multi-step mode:
\* out[i] = out[i-1] - (1 - in[i]) * out[i-1] / tau + in[i] along axis 0
RECURSIVE FilterOut(_, _, _)
FilterOut(x, i, rest) ==
    LET prev == IF i = 1 THEN 0 ELSE FilterOut(x, i - 1, rest)
        in == x.data[<<i>> \o rest]
    IN  prev - ((1 - in) * prev) \div 2 + in * HeadUnit

SynapseFilter(x) ==
    LET at(idx) == FilterOut(x, idx[1], Tail(idx))
    IN  Tensor(x.shape, at)

\* layer.Linear on the feature axis: one input feature, output feature c
\* weighs c (the leading axes are untouched)
Linear(x, out_features) ==
    LET at(idx) == idx[3] * x.data[[idx EXCEPT ![3] = 1]]
    IN  Tensor([x.shape EXCEPT ![3] = out_features], at)

\* self.spiking_stateful_synapse, lines 558-562
spiking_stateful_synapse(x) == SynapseFilter(MultiStepNeuron(Linear(x, 1)))

\* lines 593-600 in evaluation mode (dropout is the identity)
head_forward(x) ==
    LET y == spiking_stateful_synapse(Transpose01(x))
    IN  Linear(Transpose01(y), NumClasses)

\* features of one sample over T steps, in units of 1 / HeadUnit: 0 or 1.5
FeatureTrains(T) ==
    { [t \in 1..T |-> 0], [t \in 1..T |-> 3 * (HeadUnit \div 2)],
      [t \in 1..T |-> (t % 2) * 3 * (HeadUnit \div 2)] }

PerturbFeature(x, idx) ==
    [x EXCEPT !.data[idx] = 3 * (HeadUnit \div 2) - x.data[idx]]

HeadInit ==
    /\ \E shape \in InputShapes :
          /\ \E trains \in [1..shape[2] -> FeatureTrains(shape[1])] :
                head_x = InputOf(shape, trains)
          /\ \E idx \in Indices(shape) : head_x2 = PerturbFeature(head_x, idx)
    /\ head_out = EmptyTensor
    /\ head_out2 = EmptyTensor
    /\ head_pc = "input"

HeadIdle ==
    /\ head_x = EmptyTensor
    /\ head_x2 = EmptyTensor
    /\ head_out = EmptyTensor
    /\ head_out2 = EmptyTensor
    /\ head_pc = "idle"

HeadCall ==
    /\ head_pc = "input"
    /\ head_out' = head_forward(head_x)
    /\ head_out2' = head_forward(head_x2)
    /\ head_pc' = "done"
    /\ UNCHANGED <<head_x, head_x2>>

(***************************************************************************)
(* Dcls3_1d.clamp_parameters and the optimizer's effect on a layer         *)
(***************************************************************************)
Clamp(v, lo, hi) == IF v < lo THEN lo ELSE IF v > hi THEN hi ELSE v

\* Dcls3_1d.clamp_parameters: positions are kept in [-lim, lim],
\* lim = dilated_kernel_size // 2; no other parameter is touched
clamp_parameters(l) ==
    LET lim == l.dilated_kernel_size \div 2
    IN  [l EXCEPT !.P = [i \in 1..Len(l.P) |-> Clamp(l.P[i], -lim, lim)]]

(***************************************************************************)
(* conv3x3 / new_conv3x3 / conv1x1 / new_conv1x1 and BasicBlock            *)
(***************************************************************************)
Conv2d(in_planes, out_planes, kernel_size, stride) ==
    [kind |-> "Conv2d", in_channels |-> in_planes, out_channels |-> out_planes,
     kernel_size |-> kernel_size, stride |-> stride]

DelayConv(in_planes, out_planes, dense_kernel_size, stride) ==
    [in_channels |-> in_planes, out_channels |-> out_planes,
     dense_kernel_size |-> dense_kernel_size, stride |-> stride]
    @@ Dcls3_1_SJ_init("gauss", TRUE, DilatedKernelSize, ZeroP)

conv3x3(in_planes, out_planes, stride) == Conv2d(in_planes, out_planes, 3, stride)

new_conv3x3(in_planes, out_planes, stride) == DelayConv(in_planes, out_planes, 3, stride)

conv1x1(in_planes, out_planes, stride) == Conv2d(in_planes, out_planes, 1, stride)

new_conv1x1(in_planes, out_planes, stride) == DelayConv(in_planes, out_planes, 1, stride)

\* an attribute the block was not given (conv3, conv4 without se)
NoModule == [kind |-> "none"]

\* BasicBlock.__init__
BasicBlock(inplanes, planes, delayed, stride, downsample, se) ==
    [delayed |-> delayed,
     se |-> se,
     inplanes |-> inplanes,
     planes |-> planes,
     stride |-> stride,
     downsample |-> downsample,
     conv1 |-> IF delayed THEN new_conv3x3(inplanes, planes, stride)
               ELSE conv3x3(inplanes, planes, stride),
     conv2 |-> IF delayed THEN new_conv3x3(planes, planes, 1)
               ELSE conv3x3(planes, planes, 1),
     conv3 |-> IF ~se THEN NoModule
               ELSE IF delayed THEN new_conv1x1(planes, planes \div 16, 1)
               ELSE conv1x1(planes, planes \div 16, 1),
     conv4 |-> IF ~se THEN NoModule
               ELSE IF delayed THEN new_conv1x1(planes \div 16, planes, 1)
               ELSE conv1x1(planes \div 16, planes, 1)]

\* a hook call on one convolution of a block: [layer, raised].  Only the
\* delay layer has the two hooks; hook is "decrease_sig" or "clamp_parameters"
CallHook(m, hook, epoch, epochs) ==
    IF m.kind # "Dcls3_1_SJ" THEN [layer |-> m, raised |-> "AttributeError"]
    ELSE IF hook = "decrease_sig" THEN decrease_sig(m, epoch, epochs)
    ELSE [layer |-> clamp_parameters(m), raised |-> "none"]

\* the calls a block hook makes, in order; an exception ends them.  The
\* outcome is [block, raised, visits]: visits lists the convolutions on
\* which the hook was invoked.
RECURSIVE CallHooks(_, _, _, _, _)
CallHooks(b, names, hook, epoch, epochs) ==
    IF names = <<>> THEN [block |-> b, raised |-> "none", visits |-> <<>>]
    ELSE LET r == CallHook(b[Head(names)], hook, epoch, epochs)
             b1 == [b EXCEPT ![Head(names)] = r.layer]
         IN  IF r.raised # "none"
             THEN [block |-> b1, raised |-> r.raised, visits |-> <<Head(names)>>]
             ELSE LET rest == CallHooks(b1, Tail(names), hook, epoch, epochs)
                  IN  [rest EXCEPT !.visits = <<Head(names)>> \o rest.visits]

\* the forwarding list without the `if self.delayed` guard
HookTargetsUnguarded(b) ==
    IF b.se THEN <<"conv1", "conv2", "conv3", "conv4">> ELSE <<"conv1", "conv2">>

\* the convolutions BasicBlock.clamp_parameters / decrease_sig forward to
HookTargets(b) ==
    IF b.delayed
    THEN IF b.se THEN <<"conv1", "conv2", "conv3", "conv4">> ELSE <<"conv1", "conv2">>
    ELSE <<>>

\* BasicBlock.clamp_parameters / BasicBlock.decrease_sig
BasicBlock_hook(b, hook, epoch, epochs) ==
    CallHooks(b, HookTargets(b), hook, epoch, epochs)

\* the arguments the hooks are called with, (epoch, epochs): the first epoch
\* and one that is past the end for all but the default total
HookArgs ==
    { <<e, n>> : e \in {0, SmallEpochs}, n \in {1, 4, SmallEpochs, max_epoch_default} }

\* planes of a standalone block: 16 is the least that gives se a channel
BlockPlanes == {16, 64}

BlkInit ==
    /\ \E d \in BOOLEAN, se \in BOOLEAN, pl \in BlockPlanes :
          blk = BasicBlock(pl, pl, d, 1, FALSE, se)
    /\ blk_raised = "none"
    /\ blk_calls = 0

BlkIdle ==
    /\ blk = BasicBlock(64, 64, FALSE, 1, FALSE, FALSE)
    /\ blk_raised = "none"
    /\ blk_calls = 0

BlkHook(hook, epoch, epochs) ==
    /\ blk_raised = "none"
    /\ blk_calls < MaxHookCalls
    /\ LET r == BasicBlock_hook(blk, hook, epoch, epochs)
       IN  /\ blk' = r.block
           /\ blk_raised' = r.raised
    /\ blk_calls' = blk_calls + 1

BlkDecreaseSig == \E a \in HookArgs : BlkHook("decrease_sig", a[1], a[2])

BlkClamp == BlkHook("clamp_parameters", 0, 0)

(***************************************************************************)
(* ResNet18: __init__, _make_layer, clamp_parameters, decrease_sig.        *)
(* Blocks live in bb.heap; self.layers and the Sequential of each stage    *)
(* hold their indices, as the Python lists hold references.                *)
(***************************************************************************)
base_channel == 64

expansion == 1

\* ResNet18.__init__ up to line 340
ResNet18_new(se) ==
    [inplanes |-> base_channel, se |-> se, layers |-> <<>>, heap |-> <<>>,
     stages |-> <<>>]

\* planes and stride of self.layer1 .. self.layer4 (lines 342-380)
StagePlanes(k) == (2 ^ (k - 1)) * base_channel

StageStride(k) == IF k = 1 THEN 1 ELSE 2

\* ResNet18._make_layer: [bb, module], module being the Sequential returned
make_layer(b, planes, blocks, delayed, stride) ==
    LET downsample == stride # 1 \/ b.inplanes # planes * expansion
        first == BasicBlock(b.inplanes, planes, delayed, stride, downsample, b.se)
        more == [i \in 1..(blocks - 1) |->
                    BasicBlock(planes * expansion, planes, delayed, 1, FALSE, b.se)]
        new == <<first>> \o more
        ids == [i \in 1..Len(new) |-> Len(b.heap) + i]
    IN  [bb |-> [b EXCEPT !.inplanes = planes,
                          !.heap = b.heap \o new,
                          !.layers = Append(b.layers, ids)],
         module |-> ids]

RECURSIVE Flatten(_)
Flatten(ss) == IF ss = <<>> THEN <<>> ELSE Head(ss) \o Flatten(Tail(ss))

\* the loop `for layer in self.layers: for block in layer: block.<hook>()`
\* over the block indices ids; an exception ends it.  [bb, raised, visits]
RECURSIVE HookBlocks(_, _, _, _, _)
HookBlocks(b, ids, hook, epoch, epochs) ==
    IF ids = <<>> THEN [bb |-> b, raised |-> "none", visits |-> <<>>]
    ELSE LET id == Head(ids)
             r == BasicBlock_hook(b.heap[id], hook, epoch, epochs)
             b1 == [b EXCEPT !.heap[id] = r.block]
             here == [i \in 1..Len(r.visits) |-> <<id, r.visits[i]>>]
         IN  IF r.raised # "none"
             THEN [bb |-> b1, raised |-> r.raised, visits |-> here]
             ELSE LET rest == HookBlocks(b1, Tail(ids), hook, epoch, epochs)
                  IN  [rest EXCEPT !.visits = here \o rest.visits]

\* ResNet18.clamp_parameters / ResNet18.decrease_sig
ResNet18_hook(b, hook, epoch, epochs) ==
    HookBlocks(b, Flatten(b.layers), hook, epoch, epochs)

NumStages == 4

Built(b) == Len(b.stages) = NumStages

BldInit ==
    /\ bld_layers \in [1..NumStages -> 1..MaxBlocks]
    /\ \E se \in BOOLEAN : bb = ResNet18_new(se)
    /\ bb_visits = <<>>
    /\ bb_raised = "none"
    /\ bb_calls = 0

BldIdle ==
    /\ bld_layers = <<>>
    /\ bb = ResNet18_new(FALSE)
    /\ bb_visits = <<>>
    /\ bb_raised = "none"
    /\ bb_calls = 0

\* self.layerK = self._make_layer(block, planes, layers[K - 1], delayed=True, ...)
BldMakeLayer ==
    /\ ~Built(bb)
    /\ LET k == Len(bb.stages) + 1
           r == make_layer(bb, StagePlanes(k), bld_layers[k], TRUE, StageStride(k))
       IN  bb' = [r.bb EXCEPT !.stages = Append(r.bb.stages, r.module)]
    /\ UNCHANGED <<bld_layers, bb_visits, bb_raised, bb_calls>>

BldHook(hook, epoch, epochs) ==
    /\ Built(bb)
    /\ bb_raised = "none"
    /\ bb_calls < MaxHookCalls
    /\ LET r == ResNet18_hook(bb, hook, epoch, epochs)
       IN  /\ bb' = r.bb
           /\ bb_raised' = r.raised
           /\ bb_visits' = r.visits
    /\ bb_calls' = bb_calls + 1
    /\ UNCHANGED bld_layers

BldDecreaseSig == \E a \in HookArgs : BldHook("decrease_sig", a[1], a[2])

BldClamp == BldHook("clamp_parameters", 0, 0)

(***************************************************************************)
(* param_groups and optimizer.step() on a delay layer                      *)
(***************************************************************************)
\* the parameters a delay layer registers under the module name c:
\* <<qualified name, attribute, requires_grad>>; a missing SIG is not listed
LayerParams(l) ==
    { <<<<"c", ".", "w">>, "weight", TRUE>>,
      <<<<"c", ".", "P">>, "P", l.P_requires_grad>> }
    \cup (IF Len(l.SIG) > 0
          THEN { <<<<"c", ".", "S", "I", "G">>, "SIG", l.SIG_requires_grad>> }
          ELSE {})

\* lines 150-161: the attributes in each group
ParamGroups(l) ==
    [position_params |-> { p[2] : p \in { q \in LayerParams(l) : InPositionGroup(q[1], q[3]) } },
     other_params |-> { p[2] : p \in { q \in LayerParams(l) : ~InPositionGroup(q[1], q[3]) } }]

\* learning rate of each group in units of args.lr (lines 159-160)
PositionLr == 10

OtherLr == 1

\* an attribute is updated by optimizer.step() when it is in a group and
\* has a gradient, which backward gives to the parameters requiring one
Updated(l, groups, attr) ==
    /\ attr \in groups.position_params \cup groups.other_params
    /\ CASE attr = "P" -> l.P_requires_grad
         [] attr = "SIG" -> l.SIG_requires_grad
         [] OTHER -> TRUE

LrOf(groups, attr) == IF attr \in groups.position_params THEN PositionLr ELSE OtherLr

\* optimizer.step() with update direction d (+1 or -1) on every entry: a
\* position or weight moves by d * lr; a spread is scaled, down for d = -1
\* and up (by the inverse step) for d = +1
optimizer_step(l, groups, d) ==
    [l EXCEPT
       !.weight = IF Updated(l, groups, "weight")
                  THEN l.weight + d * LrOf(groups, "weight") ELSE l.weight,
       !.P = IF Updated(l, groups, "P")
             THEN [i \in 1..Len(l.P) |-> l.P[i] + d * LrOf(groups, "P")]
             ELSE l.P,
       !.SIG = IF Updated(l, groups, "SIG")
               THEN [i \in 1..Len(l.SIG) |->
                        IF d < 0 THEN F32Mul(l.SIG[i], F32(Pow2_23, -24))
                        ELSE F32Mul(l.SIG[i], F32(Pow2_23, -22))]
               ELSE l.SIG]

Directions == {-1, 1}

\* positions a layer starts from.  Dcls3_1_SJ.__init__ writes none (the
\* constant initialisation of line 42 is commented out), so the value is
\* the base class's, inside or outside the window [-lim, lim]
InitialP == { [i \in 1..NEntries |-> v] : v \in -MaxInitialP..MaxInitialP }

LayInit ==
    /\ \E v \in Versions, ld \in BOOLEAN, P0 \in InitialP :
          lay = [weight |-> 0] @@ Dcls3_1_SJ_init(v, ld, DilatedKernelSize, P0)
    /\ lay_groups = ParamGroups(lay)
    /\ lay_last = "init"
    /\ lay_raised = "none"
    /\ lay_ops = 0

LayIdle ==
    /\ lay = [weight |-> 0] @@ Dcls3_1_SJ_init("gauss", TRUE, DilatedKernelSize, ZeroP)
    /\ lay_groups = ParamGroups(lay)
    /\ lay_last = "idle"
    /\ lay_raised = "none"
    /\ lay_ops = 0

LayCanAct == lay_raised = "none" /\ lay_ops < MaxLayerOps

LayOptimizerStep ==
    /\ LayCanAct
    /\ \E d \in Directions : lay' = optimizer_step(lay, lay_groups, d)
    /\ lay_last' = "step"
    /\ lay_ops' = lay_ops + 1
    /\ UNCHANGED <<lay_groups, lay_raised>>

LayClamp ==
    /\ LayCanAct
    /\ lay' = clamp_parameters(lay)
    /\ lay_last' = "clamp"
    /\ lay_ops' = lay_ops + 1
    /\ UNCHANGED <<lay_groups, lay_raised>>

LayDecreaseSig ==
    /\ LayCanAct
    /\ \E a \in HookArgs :
          LET r == decrease_sig(lay, a[1], a[2])
          IN  /\ lay' = r.layer
              /\ lay_raised' = r.raised
    /\ lay_last' = "decrease_sig"
    /\ lay_ops' = lay_ops + 1
    /\ UNCHANGED lay_groups

(***************************************************************************)
(* lip_reading.py: model selection and the training/testing loop           *)
(***************************************************************************)
ModelNames == {"spiking_mstp_low", "snn1", "snn2"}

\* ResNet18.__init__, lines 340-380: the four _make_layer calls
RECURSIVE MakeStages(_, _, _)
MakeStages(b, layers, k) ==
    IF k > NumStages THEN b
    ELSE LET r == make_layer(b, StagePlanes(k), layers[k], TRUE, StageStride(k))
         IN  MakeStages([r.bb EXCEPT !.stages = Append(r.bb.stages, r.module)],
                        layers, k + 1)

ResNet18_init(layers, se) == MakeStages(ResNet18_new(se), layers, 1)

\* LowRateBranch.__init__ with its defaults (lines 545-546)
LowRateBranch_init == [kind |-> "LowRateBranch", bb |-> ResNet18_init(<<2, 2, 2, 2>>, FALSE)]

\* SNN1 / SNN2 once built: plain convolutions, no delay layer and no hook
SNN_init(kind) == [kind |-> kind, weight |-> 0]

\* the keyword arguments each constructor call of lines 118-141 passes
ScriptKwargs ==
    {"n_class", "spiking_neuron", "detach_reset", "surrogate_function", "step_mode"}

\* the parameters each __init__ names; every other keyword stays in
\* **kwargs and is passed on to spiking_neuron(*args, **kwargs)
CtorParams(kind) ==
    CASE kind = "LowRateBranch" -> {"block", "layers", "se", "spiking_neuron", "n_class"}
      [] kind = "SNN1" -> {"spiking_neuron", "n_class"}
      [] kind = "SNN2" -> {"spiking_neuron", "num_labels", "norm_layer", "num_init_channels"}

\* the keywords ParametricLIFNode.__init__ accepts; it takes no **kwargs
NeuronParams ==
    {"init_tau", "decay_input", "v_threshold", "v_reset", "surrogate_function",
     "detach_reset", "step_mode", "backend", "store_v_seq"}

\* what building the first spiking neuron of the model raises
ConstructorRaised(kind) ==
    IF (ScriptKwargs \ CtorParams(kind)) \subseteq NeuronParams THEN "none"
    ELSE "TypeError"

\* `model` when its constructor raised: the name is never bound
NoModel == [kind |-> "none"]

\* lines 117-144: [model, raised]
SelectModel(model_name) ==
    LET kind == CASE model_name = "spiking_mstp_low" -> "LowRateBranch"
                  [] model_name = "snn1" -> "SNN1"
                  [] model_name = "snn2" -> "SNN2"
        raised == ConstructorRaised(kind)
    IN  [model |-> IF raised # "none" THEN NoModel
                   ELSE IF kind = "LowRateBranch" THEN LowRateBranch_init
                   ELSE SNN_init(kind),
         raised |-> raised]

\* optimizer.step() on one module of a block: the positions of a delay
\* layer are in the position group and move by direction * PositionLr
StepModule(m, d) ==
    IF m.kind = "Dcls3_1_SJ" /\ m.P_requires_grad
    THEN [m EXCEPT !.P = [i \in 1..Len(m.P) |-> m.P[i] + d * PositionLr]]
    ELSE m

StepBlock(b, d) ==
    [b EXCEPT !.conv1 = StepModule(b.conv1, d), !.conv2 = StepModule(b.conv2, d),
              !.conv3 = StepModule(b.conv3, d), !.conv4 = StepModule(b.conv4, d)]

\* utils.train: the optimizer step followed by clamp_parameters
train(m, d) ==
    IF m.kind = "LowRateBranch"
    THEN LET stepped == [m.bb EXCEPT !.heap = [i \in 1..Len(m.bb.heap) |->
                                                   StepBlock(m.bb.heap[i], d)]]
         IN  [m EXCEPT !.bb = ResNet18_hook(stepped, "clamp_parameters", 0, 0).bb]
    ELSE [m EXCEPT !.weight = m.weight + d]

\* what utils.train returns with the update it made
TrainOutcomes ==
    { [d |-> -1, train_loss |-> 2, train_accuracy |-> 0],
      [d |-> 1, train_loss |-> 1, train_accuracy |-> 1] }

\* line 188
BestEpochInit == [accuracy |-> 0, val_loss |-> 9999, train_loss |-> 9999, epoch |-> 0]

\* what utils.test returns: <<test_loss, test_accuracy>>; the last loss is
\* the val_loss best_epoch starts with
TestLosses == {1, BestEpochInit.val_loss}

TestOutcomes == { <<l, a>> : l \in TestLosses, a \in 0..1 }

\* model.decrease_sig(epoch, args.max_epoch), line 220: [model, raised]
model_decrease_sig(m, e, max_epoch) ==
    IF m.kind # "LowRateBranch" THEN [model |-> m, raised |-> "AttributeError"]
    ELSE LET r == ResNet18_hook(m.bb, "decrease_sig", e, max_epoch)
         IN  [model |-> [m EXCEPT !.bb = r.bb], raised |-> r.raised]

NoFile == [epoch |-> -1]

start_epoch == 0

TrnInit ==
    /\ args \in [model_name : ModelNames, max_epoch : 0..MaxEpochArg]
    /\ model = SelectModel(args.model_name).model
    /\ trn_epoch = start_epoch
    /\ trn_pc = IF SelectModel(args.model_name).raised # "none" THEN "startup_failed"
                ELSE IF start_epoch < args.max_epoch THEN "train" ELSE "done"
    /\ trn_raised = SelectModel(args.model_name).raised
    /\ trn_log = <<>>
    /\ trn_locals = [train_loss |-> 0, train_accuracy |-> 0, test_loss |-> 0,
                     test_accuracy |-> 0]
    /\ trn_lists = [train_losses |-> <<>>, test_losses |-> <<>>,
                    train_accuracies |-> <<>>, test_accuracies |-> <<>>]
    /\ trn_models = <<>>
    /\ best_epoch = BestEpochInit
    /\ checkpoint = NoFile
    /\ files = [last |-> NoFile, best |-> NoFile, results |-> NoFile]

TrnIdle ==
    /\ args = [model_name |-> "snn1", max_epoch |-> 0]
    /\ model = SNN_init("SNN1")
    /\ trn_epoch = start_epoch
    /\ trn_pc = "done"
    /\ trn_raised = "none"
    /\ trn_log = <<>>
    /\ trn_locals = [train_loss |-> 0, train_accuracy |-> 0, test_loss |-> 0,
                     test_accuracy |-> 0]
    /\ trn_lists = [train_losses |-> <<>>, test_losses |-> <<>>,
                    train_accuracies |-> <<>>, test_accuracies |-> <<>>]
    /\ trn_models = <<>>
    /\ best_epoch = BestEpochInit
    /\ checkpoint = NoFile
    /\ files = [last |-> NoFile, best |-> NoFile, results |-> NoFile]

\* checkpoint["model"] is model.state_dict() (line 229): its tensors share
\* storage with the parameters, so the dictionary built in the previous
\* epoch shows every in-place write to the model m; a file is a copy
Aliased(ckpt, m) == IF ckpt = NoFile THEN ckpt ELSE [ckpt EXCEPT !.model = m]

\* lines 211-218
TrnTrain ==
    /\ trn_pc = "train"
    /\ \E o \in TrainOutcomes :
          /\ model' = train(model, o.d)
          /\ trn_locals' = [trn_locals EXCEPT !.train_loss = o.train_loss,
                                              !.train_accuracy = o.train_accuracy]
    /\ checkpoint' = Aliased(checkpoint, model')
    /\ trn_log' = Append(trn_log, <<trn_epoch, "train">>)
    /\ trn_pc' = "decrease_sig"
    /\ UNCHANGED <<args, trn_epoch, trn_raised, trn_lists, trn_models, best_epoch, files>>

\* line 220
TrnDecreaseSig ==
    /\ trn_pc = "decrease_sig"
    /\ LET r == model_decrease_sig(model, trn_epoch, args.max_epoch)
       IN  /\ model' = r.model
           /\ trn_raised' = r.raised
           /\ trn_pc' = IF r.raised = "none" THEN "test" ELSE "aborted"
    /\ checkpoint' = Aliased(checkpoint, model')
    /\ trn_log' = Append(trn_log, <<trn_epoch, "decrease_sig">>)
    /\ UNCHANGED <<args, trn_epoch, trn_locals, trn_lists, trn_models, best_epoch, files>>

\* lines 221-226
TrnTest ==
    /\ trn_pc = "test"
    /\ \E o \in TestOutcomes :
          /\ trn_locals' = [trn_locals EXCEPT !.test_loss = o[1], !.test_accuracy = o[2]]
          /\ trn_lists' =
               [train_losses |-> Append(trn_lists.train_losses, trn_locals.train_loss),
                test_losses |-> Append(trn_lists.test_losses, o[1]),
                train_accuracies |-> Append(trn_lists.train_accuracies,
                                            trn_locals.train_accuracy),
                test_accuracies |-> Append(trn_lists.test_accuracies, o[2])]
    /\ trn_models' = Append(trn_models, model)
    /\ trn_log' = Append(trn_log, <<trn_epoch, "test">>)
    /\ trn_pc' = "save_last"
    /\ UNCHANGED <<args, model, trn_epoch, trn_raised, best_epoch, checkpoint, files>>

\* lines 227-233
TrnSaveLast ==
    /\ trn_pc = "save_last"
    /\ checkpoint' = [epoch |-> trn_epoch, model |-> model]
    /\ files' = [files EXCEPT !.last = checkpoint']
    /\ trn_log' = Append(trn_log, <<trn_epoch, "save_last">>)
    /\ trn_pc' = "save_best"
    /\ UNCHANGED <<args, model, trn_epoch, trn_raised, trn_locals, trn_lists, trn_models,
                   best_epoch>>

\* the comparison with the loss test of line 237 made non-strict
IsBetter_or_tie(l, best) ==
    \/ l.test_accuracy > best.accuracy
    \/ (l.test_accuracy = best.accuracy /\ l.test_loss <= best.val_loss)

\* line 236
IsBetter(l, best) ==
    \/ l.test_accuracy > best.accuracy
    \/ (l.test_accuracy = best.accuracy /\ l.test_loss < best.val_loss)

\* lines 236-260, and the step of the for loop
TrnSaveBest ==
    /\ trn_pc = "save_best"
    /\ best_epoch' = IF IsBetter(trn_locals, best_epoch)
                     THEN [accuracy |-> trn_locals.test_accuracy,
                           val_loss |-> trn_locals.test_loss,
                           train_loss |-> trn_locals.train_loss,
                           epoch |-> trn_epoch]
                     ELSE best_epoch
    /\ files' = [files EXCEPT
                   !.best = IF IsBetter(trn_locals, best_epoch) THEN checkpoint ELSE @,
                   !.results = [epoch |-> trn_epoch, lists |-> trn_lists,
                                best_epoch |-> best_epoch']]
    /\ trn_log' = Append(trn_log, <<trn_epoch, "save_best">>)
    /\ trn_epoch' = trn_epoch + 1
    /\ trn_pc' = IF trn_epoch + 1 < args.max_epoch THEN "train" ELSE "done"
    /\ UNCHANGED <<args, model, trn_raised, trn_locals, trn_lists, trn_models, checkpoint>>

(***************************************************************************)
(* SigSpec: one layer, decrease_sig(epoch, epochs) for epoch = 0, 1, ...   *)
(* epochs - 1, as the training loop and spec 8 call it.                    *)
(***************************************************************************)
SigInit ==
    /\ \E v \in Versions, ld \in BOOLEAN :
          lyr = Dcls3_1_SJ_init(v, ld, DilatedKernelSize, ZeroP)
    /\ sig_epochs \in EpochsChoices
    /\ sig_epoch = 0
    /\ sig_raised = "none"
    /\ sig_calls = 0

SigCall ==
    /\ sig_raised = "none"
    /\ sig_epoch < sig_epochs
    /\ LET r == decrease_sig(lyr, sig_epoch, sig_epochs)
       IN  /\ lyr' = r.layer
           /\ sig_raised' = r.raised
    /\ sig_epoch' = sig_epoch + 1
    /\ sig_calls' = sig_calls + 1
    /\ UNCHANGED sig_epochs

SigIdle ==
    /\ lyr = Dcls3_1_SJ_init("gauss", TRUE, DilatedKernelSize, ZeroP)
    /\ sig_epochs = 0
    /\ sig_epoch = 0
    /\ sig_raised = "none"
    /\ sig_calls = 0

SigNext == SigCall /\ UNCHANGED <<grpVars, fwdVars, headVars, blkVars, bldVars, layVars, trnVars>>

SigSpecInit == SigInit /\ GrpIdle /\ FwdIdle /\ HeadIdle /\ BlkIdle /\ BldIdle /\ LayIdle /\ TrnIdle

SigSpec == SigSpecInit /\ [][SigNext]_vars

GrpNext == GrpStep /\ UNCHANGED <<sigVars, fwdVars, headVars, blkVars, bldVars, layVars, trnVars>>

GroupSpecInit == GrpInit /\ SigIdle /\ FwdIdle /\ HeadIdle /\ BlkIdle /\ BldIdle /\ LayIdle /\ TrnIdle

GroupSpec == GroupSpecInit /\ [][GrpNext]_vars

\* C1: once the groups are built, a parameter is in the position group iff
\* its name ends in .P or .SIG and it requires gradient; every other one is
\* in the default group.  A frozen position parameter is not in the
\* position group.
C1_Groups ==
    GrpDone =>
        \A i \in 1..Len(named_parameters) :
            LET p == named_parameters[i]
                marked == EndsWith(p.name, DotP) \/ EndsWith(p.name, DotSIG)
            IN  /\ (i \in Range(position_params)) <=> (marked /\ p.requires_grad)
                /\ (i \in Range(other_params)) <=> ~(marked /\ p.requires_grad)

\* every tracked entry of SIG is at or below the floor
AtFloor(l) == \A i \in 1..Len(l.SIG) : ~GreaterThanFinalSig(l.SIG[i])

\* the scenario of spec 8: relaxation "gauss", total_epochs = 100
Gauss100 == lyr.version = "gauss" /\ sig_epochs = max_epoch_default

\* C2: with total_epochs = 100 on a "gauss" layer initialised to 1.5, the
\* spread never increases from one call to the next, is <= 0.23 once the
\* call for epoch 25 has been made, and no call changes it once it is at
\* the floor.
C2_Anneal ==
    /\ [][Gauss100 =>
            /\ \A i \in 1..NEntries : F32Leq(lyr'.SIG[i], lyr.SIG[i])
            /\ (AtFloor(lyr) => lyr'.SIG = lyr.SIG)]_vars
    /\ []((Gauss100 /\ sig_calls >= 26) => AtFloor(lyr))

\* C2 witness: all 100 calls were made and the spread sits at the floor
C2_Witness ==
    /\ Gauss100 /\ sig_calls = max_epoch_default /\ sig_raised = "none"
    /\ AtFloor(lyr)
    /\ ~F32Leq(lyr.SIG[1], F32Mul(final_sig, alpha(final_epoch(sig_epochs))))

\* C8: a call on a layer whose relaxation is not "gauss", or whose spread
\* is already at or below the floor, raises nothing and changes no
\* parameter of the layer.
C8_NoOp ==
    [][(lyr.version # "gauss" \/ AtFloor(lyr)) =>
          (sig_raised' = "none" /\ lyr' = lyr)]_vars

\* C13: for every total_epochs >= 1 and every epoch below it, a call on a
\* "gauss" layer whose spread is above the floor raises nothing.
C13_NeverRaises ==
    [][(lyr.version = "gauss" /\ ~AtFloor(lyr) /\ sig_epochs >= 1 /\ sig_epoch < sig_epochs)
          => sig_raised' = "none"]_vars

FwdNext == FwdCall /\ UNCHANGED <<sigVars, grpVars, headVars, blkVars, bldVars, layVars, trnVars>>

FwdSpecInit == FwdInit /\ SigIdle /\ GrpIdle /\ HeadIdle /\ BlkIdle /\ BldIdle /\ LayIdle /\ TrnIdle

FwdSpec == FwdSpecInit /\ [][FwdNext]_vars

\* the entries of tensor x at time step t of sample n (axes [T, N, C, H, W])
At(x, t, n) == [c \in 1..x.shape[3] |-> x.data[<<t, n, c, 1, 1>>]]

\* x and y agree on the time steps 1..t of every sample
AgreeUpTo(x, y, t) ==
    \A u \in 1..t, n \in 1..x.shape[2] : At(x, u, n) = At(y, u, n)

\* C3: the output at time step t is the same for two inputs that agree on
\* the steps up to and including t, whatever they hold later.
C3_Causal ==
    fwd_pc = "done" =>
        \A t \in 1..fwd_x.shape[1] :
            AgreeUpTo(fwd_x, fwd_x2, t) => AgreeUpTo(fwd_out, fwd_out2, t)

\* C3 witness: the inputs agree before some step t > 1 and differ at t, and
\* the outputs agree before t and differ at t
C3_Witness ==
    /\ fwd_pc = "done"
    /\ \E t \in 2..fwd_x.shape[1] :
          /\ AgreeUpTo(fwd_x, fwd_x2, t - 1) /\ ~AgreeUpTo(fwd_x, fwd_x2, t)
          /\ AgreeUpTo(fwd_out, fwd_out2, t - 1) /\ ~AgreeUpTo(fwd_out, fwd_out2, t)

\* x and y agree on every time step of sample n
AgreeOnSample(x, y, n) == \A t \in 1..x.shape[1] : At(x, t, n) = At(y, t, n)

\* C9: the output keeps the layout [T, N, OutChannels, H', W'] with the T
\* and N of the input, the output of sample n is computed from sample n
\* alone, and the permutation after the kernel undoes the one before it.
C9_Adapter ==
    fwd_pc = "done" =>
        /\ fwd_out.shape = [fwd_x.shape EXCEPT ![3] = OutChannels]
        /\ Permute(Permute(fwd_x, PermIn), PermOut) = fwd_x
        /\ \A n \in 1..fwd_x.shape[2] :
              AgreeOnSample(fwd_x, fwd_x2, n) => AgreeOnSample(fwd_out, fwd_out2, n)

\* C9 witness: a batch of two or more over two or more steps; the inputs
\* differ in one sample only and so do the outputs
C9_Witness ==
    /\ fwd_pc = "done"
    /\ fwd_x.shape[1] >= 2 /\ fwd_x.shape[2] >= 2
    /\ fwd_out.shape[1] = fwd_x.shape[1]
    /\ \E n, m \in 1..fwd_x.shape[2] :
          /\ AgreeOnSample(fwd_out, fwd_out2, n)
          /\ ~AgreeOnSample(fwd_out, fwd_out2, m)

HeadNext == HeadCall /\ UNCHANGED <<sigVars, grpVars, fwdVars, blkVars, bldVars, layVars, trnVars>>

HeadSpecInit == HeadInit /\ SigIdle /\ GrpIdle /\ FwdIdle /\ BlkIdle /\ BldIdle /\ LayIdle /\ TrnIdle

HeadSpec == HeadSpecInit /\ [][HeadNext]_vars

\* C10: the logits have layout [T, b, n_class] with the input's T and b; the
\* logits of sample n at step t are the same for two inputs that agree on
\* sample n up to step t, whatever the other samples hold.
C10_HeadPerSample ==
    head_pc = "done" =>
        /\ head_out.shape = [head_x.shape EXCEPT ![3] = NumClasses]
        /\ \A n \in 1..head_x.shape[2], t \in 1..head_x.shape[1] :
              (\A u \in 1..t : At(head_x, u, n) = At(head_x2, u, n))
                  => At(head_out, t, n) = At(head_out2, t, n)

\* what the code does instead: the state runs along the batch axis, so the
\* logits of sample n at step t are fixed by samples 1..n at that step
HeadStateAlongBatch ==
    head_pc = "done" =>
        \A n \in 1..head_x.shape[2], t \in 1..head_x.shape[1] :
            (\A m \in 1..n : At(head_x, t, m) = At(head_x2, t, m))
                => At(head_out, t, n) = At(head_out2, t, n)

BlkNext ==
    \/ BlkDecreaseSig /\ UNCHANGED <<sigVars, grpVars, fwdVars, headVars, bldVars, layVars, trnVars>>
    \/ BlkClamp /\ UNCHANGED <<sigVars, grpVars, fwdVars, headVars, bldVars, layVars, trnVars>>

BlockSpecInit == BlkInit /\ SigIdle /\ GrpIdle /\ FwdIdle /\ HeadIdle /\ BldIdle /\ LayIdle /\ TrnIdle

BlockSpec == BlockSpecInit /\ [][BlkNext]_vars

\* C4: on a block built with delayed=False, with or without se, no call of
\* decrease_sig or clamp_parameters raises and none changes the block.
C4_NonDelayedNoOp ==
    /\ [][~blk.delayed => blk' = blk]_vars
    /\ [](~blk.delayed => blk_raised = "none")

\* C4 witness: a non-delayed block with se after MaxHookCalls hook calls
C4_Witness == ~blk.delayed /\ blk.se /\ blk_calls = MaxHookCalls

BldNext ==
    \/ BldMakeLayer /\ UNCHANGED <<sigVars, grpVars, fwdVars, headVars, blkVars, layVars, trnVars>>
    \/ BldDecreaseSig /\ UNCHANGED <<sigVars, grpVars, fwdVars, headVars, blkVars, layVars, trnVars>>
    \/ BldClamp /\ UNCHANGED <<sigVars, grpVars, fwdVars, headVars, blkVars, layVars, trnVars>>

BuildSpecInit == BldInit /\ SigIdle /\ GrpIdle /\ FwdIdle /\ HeadIdle /\ BlkIdle /\ LayIdle /\ TrnIdle

BuildSpec == BuildSpecInit /\ [][BldNext]_vars

RECURSIVE SumSeq(_)
SumSeq(ns) == IF ns = <<>> THEN 0 ELSE Head(ns) + SumSeq(Tail(ns))

ConvNames == {"conv1", "conv2", "conv3", "conv4"}

\* the delay layers of the model: every delay convolution of every block of
\* self.layer1 .. self.layer4
DelayLayers(b) ==
    { <<id, c>> \in Range(Flatten(b.stages)) \X ConvNames :
          b.heap[id][c].kind = "Dcls3_1_SJ" }

\* the stage registry holds the four block lists of the stage-builder, all
\* n1 + n2 + n3 + n4 blocks, each delayed, conv1 and conv2 delay layers and
\* conv3 and conv4 as well when se is set
RegistryComplete ==
    Built(bb) =>
        /\ bb.layers = bb.stages
        /\ Len(bb.layers) = NumStages
        /\ Len(bb.heap) = SumSeq(bld_layers)
        /\ Range(Flatten(bb.layers)) = 1..Len(bb.heap)
        /\ \A id \in 1..Len(bb.heap) :
              /\ bb.heap[id].delayed
              /\ { c \in ConvNames : bb.heap[id][c].kind = "Dcls3_1_SJ" }
                    = IF bb.se THEN ConvNames ELSE {"conv1", "conv2"}

\* the last hook call reached every delay layer, each once
VisitedEachOnce ==
    /\ Range(bb_visits) = DelayLayers(bb)
    /\ Len(bb_visits) = Cardinality(DelayLayers(bb))

\* C7: after construction the registry is complete, and a call of the
\* backbone's decrease_sig or clamp_parameters invokes the hook exactly once
\* on every delay layer of the model.
C7_Broadcast ==
    /\ RegistryComplete
    /\ (Built(bb) /\ bb_calls > 0) => VisitedEachOnce

\* the per-epoch factors of the decrease_sig calls made on the backbone
HookFactors ==
    { alpha(final_epoch(a[2])) : a \in { x \in HookArgs : final_epoch(x[2]) > 0 } }

\* the values 1.5 * f1 * ... * fj, j <= k, each fi a per-epoch factor
RECURSIVE Spreads(_)
Spreads(k) ==
    IF k = 0 THEN {F32Half(DilatedKernelSize)}
    ELSE LET S == Spreads(k - 1)
         IN  S \cup { F32Mul(v, f) : v \in S, f \in HookFactors }

\* C15: in every state reached from construction by decrease_sig calls on
\* the backbone, all entries of every delay layer's spread are equal and
\* all delay layers hold the same value, 1.5 times a product of per-epoch
\* factors, one at most for each call made; the value is never below the
\* floor times a per-epoch factor.
C15_SpreadUniform ==
    \E v \in Spreads(bb_calls) :
        /\ \A d \in DelayLayers(bb) : bb.heap[d[1]][d[2]].SIG = [i \in 1..NEntries |-> v]
        /\ ~GreaterThanFinalSig(v) =>
              \E f \in HookFactors : F32Leq(F32Mul(final_sig, f), v)

\* C15 witness: a backbone with se and MaxBlocks blocks in every stage has
\* had MaxHookCalls calls, none raised, and its first and last delay layers
\* are below the floor
C15_Witness ==
    /\ Built(bb) /\ bb.se /\ Len(bb.heap) = NumStages * MaxBlocks
    /\ bb_calls = MaxHookCalls /\ bb_raised = "none"
    /\ AtFloor(bb.heap[1].conv1)
    /\ AtFloor(bb.heap[Len(bb.heap)].conv4)
    /\ bb.heap[1].conv1.SIG[1] # final_sig

LayNext ==
    \/ LayOptimizerStep /\ UNCHANGED <<sigVars, grpVars, fwdVars, headVars, blkVars, bldVars, trnVars>>
    \/ LayClamp /\ UNCHANGED <<sigVars, grpVars, fwdVars, headVars, blkVars, bldVars, trnVars>>
    \/ LayDecreaseSig /\ UNCHANGED <<sigVars, grpVars, fwdVars, headVars, blkVars, bldVars, trnVars>>

LayerSpecInit ==
    LayInit /\ SigIdle /\ GrpIdle /\ FwdIdle /\ HeadIdle /\ BlkIdle /\ BldIdle /\ TrnIdle

LayerSpec == LayerSpecInit /\ [][LayNext]_vars

\* C5: a layer that has a spread has its gradient disabled from
\* construction on, and no optimizer step and no clamp_parameters call
\* changes the spread: a step that changes it is a decrease_sig call.
C5_SpreadFrame ==
    /\ [](Len(lay.SIG) > 0 => ~lay.SIG_requires_grad)
    /\ [][lay'.SIG # lay.SIG => lay_last' = "decrease_sig"]_vars

\* C5 witness: on a "gauss" layer the optimizer has just moved the
\* positions, a clamp and a decrease_sig were applied before, and the
\* spread is what decrease_sig alone made of it
C5_Witness ==
    /\ lay.version = "gauss" /\ lay_last = "step" /\ lay_ops = MaxLayerOps
    /\ \E i \in 1..NEntries : lay.P[i] > lay.dilated_kernel_size \div 2
    /\ lay.SIG = [i \in 1..NEntries |->
                    F32Mul(F32Mul(lay.sig_init, alpha(1)), alpha(1))]

\* C11: a layer built with learn_delay = False has no gradient on its
\* position from construction on, and no optimizer step, clamp_parameters
\* call or decrease_sig call changes the position.
C11_FrozenPosition ==
    /\ [](~lay.learn_delay => ~lay.P_requires_grad)
    /\ [][~lay.learn_delay => lay'.P = lay.P]_vars

\* what the code does to a frozen position: it has no gradient, the
\* optimizer and decrease_sig leave it alone, and clamp_parameters brings
\* it into the window [-lim, lim] whether frozen or not
FrozenPositionMovesByClampOnly ==
    /\ [](~lay.learn_delay => ~lay.P_requires_grad)
    /\ [][(~lay.learn_delay /\ lay'.P # lay.P) =>
             (lay_last' = "clamp" /\ lay'.P = clamp_parameters(lay).P)]_vars

(***************************************************************************)
(* TrainSpec: the training script from start-up to its end                 *)
(***************************************************************************)
otherVars == <<sigVars, grpVars, fwdVars, headVars, blkVars, bldVars, layVars>>

TrnNext ==
    \/ TrnTrain /\ UNCHANGED otherVars
    \/ TrnDecreaseSig /\ UNCHANGED otherVars
    \/ TrnTest /\ UNCHANGED otherVars
    \/ TrnSaveLast /\ UNCHANGED otherVars
    \/ TrnSaveBest /\ UNCHANGED otherVars

TrainSpecInit ==
    TrnInit /\ SigIdle /\ GrpIdle /\ FwdIdle /\ HeadIdle /\ BlkIdle /\ BldIdle /\ LayIdle

TrainSpec == TrainSpecInit /\ [][TrnNext]_vars

EpochSteps(e) ==
    <<<<e, "train">>, <<e, "decrease_sig">>, <<e, "test">>, <<e, "save_last">>,
      <<e, "save_best">>>>

RECURSIVE StepsFrom(_, _)
StepsFrom(e, n) == IF e >= n THEN <<>> ELSE EpochSteps(e) \o StepsFrom(e + 1, n)

IsPrefix(s, t) == Len(s) <= Len(t) /\ SubSeq(t, 1, Len(s)) = s

\* the steps of the epochs begun so far are taken in the order of the loop
StepsInOrder == IsPrefix(trn_log, StepsFrom(start_epoch, args.max_epoch))

\* a script that ends without an exception has taken every step
CompletedRunTakesEveryStep ==
    trn_pc = "done" => trn_log = StepsFrom(start_epoch, args.max_epoch)

\* C6: every epoch start_epoch .. max_epoch-1 takes the five steps train,
\* decrease_sig, test, save_last, save_best in this order and each exactly
\* once: the steps taken are always a prefix of that sequence, and when the
\* script has stopped they are the whole of it.
C6_EpochSteps ==
    /\ StepsInOrder
    /\ trn_pc \in {"done", "aborted"} => trn_log = StepsFrom(start_epoch, args.max_epoch)

\* C14: for each accepted model_name the model supports the decrease_sig
\* call of line 220, so an epoch that has finished its training pass is
\* never aborted at that step.  Stated for the totals max_epoch for which
\* the annealing factor of a delay layer is defined (max_epoch \div 4 > 0).
C14_HookSupported ==
    final_epoch(args.max_epoch) > 0 => trn_pc # "aborted"

(***************************************************************************)
(* The best-checkpoint rule                                                *)
(***************************************************************************)
\* the epochs evaluated so far, as indices of the result lists
Seen == 1..Len(trn_lists.test_accuracies)

\* epoch index i has a better result than the pair (accuracy, loss):
\* higher accuracy, or the same accuracy and a lower loss
Beats(i, accuracy, loss) ==
    \/ trn_lists.test_accuracies[i] > accuracy
    \/ /\ trn_lists.test_accuracies[i] = accuracy
       /\ trn_lists.test_losses[i] < loss

\* the epochs no result beats, the sentinel's included
Optimal ==
    { i \in Seen :
        /\ Beats(i, BestEpochInit.accuracy, BestEpochInit.val_loss)
        /\ \A j \in Seen : ~Beats(j, trn_lists.test_accuracies[i], trn_lists.test_losses[i]) }

AtEpochEnd == trn_pc \in {"train", "done"}

BestIsOptimum ==
    AtEpochEnd =>
        /\ \A i \in Seen : best_epoch.accuracy >= trn_lists.test_accuracies[i]
        /\ IF Optimal = {}
           THEN best_epoch = BestEpochInit /\ files.best = NoFile
           ELSE LET i == CHOOSE k \in Optimal : \A j \in Optimal : k <= j
                IN  /\ best_epoch = [accuracy |-> trn_lists.test_accuracies[i],
                                     val_loss |-> trn_lists.test_losses[i],
                                     train_loss |-> trn_lists.train_losses[i],
                                     epoch |-> start_epoch + i - 1]
                    /\ files.best = [epoch |-> start_epoch + i - 1,
                                     model |-> trn_models[i]]

OverwrittenIffBetter ==
    trn_pc = "save_best" =>
        ((best_epoch' # best_epoch \/ files'.best # files.best)
            <=> \/ trn_locals.test_accuracy > best_epoch.accuracy
                \/ /\ trn_locals.test_accuracy = best_epoch.accuracy
                   /\ trn_locals.test_loss < best_epoch.val_loss)

\* C12: the best record and the best checkpoint are overwritten exactly
\* when the epoch's test accuracy is higher than the recorded one, or equal
\* with a lower test loss; so at the end of every epoch the recorded accuracy
\* is at least every accuracy seen, the record is the earliest epoch with
\* the highest accuracy and then the lowest loss (or the initial sentinel
\* when no epoch beats it), and the best checkpoint holds the model of the
\* epoch the record names.
C12_BestRule == []BestIsOptimum /\ [][OverwrittenIffBetter]_vars

\* C12 witness: a run of MaxEpochArg epochs has ended; the best epoch is
\* neither the first nor the last, a later epoch ties with it, and the
\* model has changed since the best checkpoint was written
C12_Witness ==
    /\ trn_pc = "done" /\ Len(trn_lists.test_accuracies) = MaxEpochArg
    /\ best_epoch.epoch > start_epoch
    /\ \E j \in Seen :
          /\ j > best_epoch.epoch + 1
          /\ trn_lists.test_accuracies[j] = best_epoch.accuracy
          /\ trn_lists.test_losses[j] = best_epoch.val_loss
    /\ files.best.epoch = best_epoch.epoch
    /\ files.best.model # model

====
